---- MODULE Spec2Model ----
(***************************************************************************)
(* State machine of data/python/hdf5_insights.py: the coercion helpers,    *)
(* the aggregation functions and the build_archive / read_archive codec    *)
(* over an HDF5 file.                                                      *)
(*                                                                         *)
(* Python floats are modelled as extended rationals: a finite value is a   *)
(* normalised fraction n/d, and NaN, +inf and -inf are separate values     *)
(* with IEEE-754 arithmetic. Rounding error and overflow of finite         *)
(* arithmetic are not modelled. Strings are sequences of one-character     *)
(* strings so that strip(), float() parsing, str() formatting and the      *)
(* sort key of the bedroom bands are computed, not assumed.                *)
(***************************************************************************)
EXTENDS Integers, Sequences, FiniteSets, TLC

(***************************************************************************)
(* Bounds                                                                  *)
(***************************************************************************)
\* longest property collection drawn from a record family
MaxProps == 2

(***************************************************************************)
(* Floats                                                                  *)
(***************************************************************************)
Abs(x) == IF x < 0 THEN -x ELSE x

RECURSIVE GCD(_, _)
GCD(a, b) == IF b = 0 THEN a ELSE GCD(b, a % b)

\* the finite float n/d (d > 0), in lowest terms
Fin(n, d) ==
  LET g == GCD(Abs(n), d)
  IN  [k |-> "fin", n |-> n \div g, d |-> d \div g]

NaN  == [k |-> "nan", n |-> 0, d |-> 1]
PInf == [k |-> "inf", n |-> 1, d |-> 1]
NInf == [k |-> "inf", n |-> -1, d |-> 1]

IsNan(x) == x.k = "nan"
IsInf(x) == x.k = "inf"
IsFin(x) == x.k = "fin"
Sign(x)  == IF x.n > 0 THEN 1 ELSE IF x.n < 0 THEN -1 ELSE 0
InfOf(s) == IF s > 0 THEN PInf ELSE NInf

FNeg(x) == IF IsFin(x) THEN Fin(-x.n, x.d) ELSE IF IsInf(x) THEN InfOf(-x.n) ELSE NaN

FAdd(x, y) ==
  IF IsNan(x) \/ IsNan(y) THEN NaN
  ELSE IF IsInf(x) /\ IsInf(y) THEN (IF x.n = y.n THEN x ELSE NaN)
  ELSE IF IsInf(x) THEN x
  ELSE IF IsInf(y) THEN y
  ELSE Fin(x.n * y.d + y.n * x.d, x.d * y.d)

FSub(x, y) == FAdd(x, FNeg(y))

FMul(x, y) ==
  IF IsNan(x) \/ IsNan(y) THEN NaN
  ELSE IF IsInf(x) \/ IsInf(y)
       THEN (IF Sign(x) = 0 \/ Sign(y) = 0 THEN NaN ELSE InfOf(Sign(x) * Sign(y)))
  ELSE Fin(x.n * y.n, x.d * y.d)

\* x / y for a divisor y that is not zero
FDiv(x, y) ==
  IF IsNan(x) \/ IsNan(y) THEN NaN
  ELSE IF IsInf(y) THEN (IF IsInf(x) THEN NaN ELSE Fin(0, 1))
  ELSE IF IsInf(x) THEN InfOf(Sign(x) * Sign(y))
  ELSE Fin(x.n * y.d * Sign(y), x.d * Abs(y.n))

FLess(x, y) ==
  IF IsNan(x) \/ IsNan(y) THEN FALSE
  ELSE IF IsInf(x) THEN x.n < 0 /\ ~(IsInf(y) /\ y.n < 0)
  ELSE IF IsInf(y) THEN y.n > 0
  ELSE x.n * y.d < y.n * x.d

\* float(int)
IntToFloat(i) == Fin(i, 1)

\* truthiness of a float: bool(x)
FTruthy(x) == ~(IsFin(x) /\ x.n = 0)

(***************************************************************************)
(* Results of calls that may raise                                         *)
(***************************************************************************)
Ok(v)     == [exc |-> "", val |-> v]
Raise(e)  == [exc |-> e, val |-> 0]
Raised(r) == r.exc # ""

\* int(x) of a float: truncation toward zero, or the exception Python raises
FloatToInt(x) ==
  IF IsNan(x) THEN Raise("ValueError")
  ELSE IF IsInf(x) THEN Raise("OverflowError")
  ELSE Ok(IF x.n >= 0 THEN x.n \div x.d ELSE -((-x.n) \div x.d))

\* round(x) of a float: nearest integer, ties to even
RoundFloat(x) ==
  IF IsNan(x) THEN Raise("ValueError")
  ELSE IF IsInf(x) THEN Raise("OverflowError")
  ELSE LET fl  == x.n \div x.d
           rem == x.n - fl * x.d
       IN  Ok(IF 2 * rem < x.d THEN fl
              ELSE IF 2 * rem > x.d THEN fl + 1
              ELSE IF fl % 2 = 0 THEN fl ELSE fl + 1)

(***************************************************************************)
(* Strings                                                                 *)
(***************************************************************************)
Digits == {"0", "1", "2", "3", "4", "5", "6", "7", "8", "9"}

DigitVal(c) ==
  CASE c = "0" -> 0 [] c = "1" -> 1 [] c = "2" -> 2 [] c = "3" -> 3
    [] c = "4" -> 4 [] c = "5" -> 5 [] c = "6" -> 6 [] c = "7" -> 7
    [] c = "8" -> 8 [] c = "9" -> 9

DigitChar(i) ==
  CASE i = 0 -> "0" [] i = 1 -> "1" [] i = 2 -> "2" [] i = 3 -> "3"
    [] i = 4 -> "4" [] i = 5 -> "5" [] i = 6 -> "6" [] i = 7 -> "7"
    [] i = 8 -> "8" [] i = 9 -> "9"

Unknown == <<"U", "n", "k", "n", "o", "w", "n">>

RECURSIVE LStrip(_)
LStrip(s) == IF s # <<>> /\ Head(s) = " " THEN LStrip(Tail(s)) ELSE s

RECURSIVE RStrip(_)
RStrip(s) ==
  IF s # <<>> /\ s[Len(s)] = " " THEN RStrip(SubSeq(s, 1, Len(s) - 1)) ELSE s

\* str.strip()
Strip(s) == RStrip(LStrip(s))

\* str.isdigit()
IsDigitStr(s) == s # <<>> /\ \A i \in 1..Len(s) : s[i] \in Digits

\* str.endswith(c)
EndsWith(s, c) == s # <<>> /\ s[Len(s)] = c

RECURSIVE DigitsToNat(_)
DigitsToNat(s) ==
  IF s = <<>> THEN 0
  ELSE 10 * DigitsToNat(SubSeq(s, 1, Len(s) - 1)) + DigitVal(s[Len(s)])

RECURSIVE Pow10(_)
Pow10(e) == IF e = 0 THEN 1 ELSE 10 * Pow10(e - 1)

RECURSIVE NatToDigits(_)
NatToDigits(n) ==
  IF n < 10 THEN <<DigitChar(n)>>
  ELSE Append(NatToDigits(n \div 10), DigitChar(n % 10))

\* str(i) of an int
IntToStr(i) == IF i < 0 THEN <<"-">> \o NatToDigits(-i) ELSE NatToDigits(i)

\* int(s) of a str: optional sign and decimal digits, else ValueError
StrToInt(s) ==
  LET t    == Strip(s)
      neg  == t # <<>> /\ Head(t) = "-"
      body == IF t # <<>> /\ Head(t) \in {"-", "+"} THEN Tail(t) ELSE t
  IN  IF IsDigitStr(body)
      THEN Ok(IF neg THEN -DigitsToNat(body) ELSE DigitsToNat(body))
      ELSE Raise("ValueError")

\* float(s) of a str: surrounding blanks dropped, optional sign, then
\* "inf", "nan", decimal digits or digits "." digits; else ValueError
StrToFloat(s) ==
  LET t    == Strip(s)
      neg  == t # <<>> /\ Head(t) = "-"
      body == IF t # <<>> /\ Head(t) \in {"-", "+"} THEN Tail(t) ELSE t
      sg   == IF neg THEN -1 ELSE 1
      dots == {i \in 1..Len(body) : body[i] = "."}
  IN  IF body = <<"i", "n", "f">> THEN Ok(InfOf(sg))
      ELSE IF body = <<"n", "a", "n">> THEN Ok(NaN)
      ELSE IF IsDigitStr(body) THEN Ok(Fin(sg * DigitsToNat(body), 1))
      ELSE IF Cardinality(dots) = 1
           THEN LET i  == CHOOSE j \in dots : TRUE
                    ip == SubSeq(body, 1, i - 1)
                    fp == SubSeq(body, i + 1, Len(body))
                IN  IF IsDigitStr(ip) /\ IsDigitStr(fp)
                    THEN Ok(Fin(sg * (DigitsToNat(ip) * Pow10(Len(fp)) + DigitsToNat(fp)),
                                Pow10(Len(fp))))
                    ELSE Raise("ValueError")
      ELSE Raise("ValueError")

(***************************************************************************)
(* JSON values of a property record's fields                               *)
(***************************************************************************)
JNull    == [t |-> "null", f |-> NaN, s |-> <<>>]
JNum(x)  == [t |-> "num",  f |-> x,   s |-> <<>>]
JInt(i)  == JNum(Fin(i, 1))
\* an integer literal beyond the range of a float, such as 10**400
JHuge    == [t |-> "huge", f |-> NaN, s |-> <<>>]
JBool(b) == [t |-> "bool", f |-> Fin(IF b THEN 1 ELSE 0, 1), s |-> <<>>]
JStr(s)  == [t |-> "str",  f |-> NaN, s |-> s]
JList    == [t |-> "list", f |-> NaN, s |-> <<>>]
JObj     == [t |-> "obj",  f |-> NaN, s |-> <<>>]

FieldNames ==
  {"zpid", "price", "bedrooms", "bathrooms", "livingArea", "latitude",
   "longitude", "pricePerSqft", "city", "state", "homeType"}

\* the builtin float(value)
PyFloat(v) ==
  CASE v.t \in {"num", "bool"} -> Ok(v.f)
    [] v.t = "huge"            -> Raise("OverflowError")
    [] v.t = "str"             -> StrToFloat(v.s)
    [] OTHER                   -> Raise("TypeError")

Caught == {"TypeError", "ValueError"}

_safe_float(value) ==
  IF value.t = "null" THEN Ok(NaN)
  ELSE LET num == PyFloat(value)
       IN  IF Raised(num)
           THEN (IF num.exc \in Caught THEN Ok(NaN) ELSE num)
           ELSE IF IsNan(num.val) THEN Ok(NaN) ELSE num

_safe_int(value) ==
  IF value.t = "null" THEN Ok(0)
  ELSE LET num == PyFloat(value)
           res == IF Raised(num) THEN num ELSE FloatToInt(num.val)
       IN  IF Raised(res) /\ res.exc \in Caught THEN Ok(0) ELSE res

_safe_str(value, fallback) ==
  IF value.t = "str" /\ Strip(value.s) # <<>> THEN Strip(value.s) ELSE fallback

\* [cast_fn(p.get(key)) for p in properties] for a cast that may raise:
\* the list, or the exception of the first element that raises
Collect(rs) ==
  LET bad == {i \in 1..Len(rs) : Raised(rs[i])}
  IN  IF bad # {}
      THEN Raise(rs[CHOOSE i \in bad : \A j \in bad : i <= j].exc)
      ELSE Ok([i \in 1..Len(rs) |-> rs[i].val])

FloatColumn(properties, key) ==
  Collect([i \in 1..Len(properties) |-> _safe_float(properties[i][key])])

IntColumn(properties, key) ==
  Collect([i \in 1..Len(properties) |-> _safe_int(properties[i][key])])

StrColumn(properties, key) ==
  Ok([i \in 1..Len(properties) |-> _safe_str(properties[i][key], Unknown)])

(***************************************************************************)
(* Aggregations                                                            *)
(***************************************************************************)
RECURSIVE FSum(_)
FSum(xs) == IF xs = <<>> THEN Fin(0, 1) ELSE FAdd(FSum(SubSeq(xs, 1, Len(xs) - 1)), xs[Len(xs)])

\* position of key in a table of entries kept in insertion order, 0 if absent
IndexOf(totals, key) ==
  LET hit == {i \in 1..Len(totals) : totals[i].key = key}
  IN  IF hit = {} THEN 0 ELSE CHOOSE i \in hit : TRUE

\* the loop body with the count taken only of the records that have a price
CityAccumulateValidOnly(info, price, sqft) ==
  [info EXCEPT !.count = IF ~IsNan(price) THEN @ + 1 ELSE @,
               !.total_price = IF ~IsNan(price) THEN FAdd(@, price) ELSE @,
               !.total_sqft = IF ~IsNan(sqft) THEN FAdd(@, sqft) ELSE @]

\* the body of the loop of _compute_city_stats on one entry
CityAccumulate(info, price, sqft) ==
  [info EXCEPT !.count = @ + 1,
               !.total_price = IF ~IsNan(price) THEN FAdd(@, price) ELSE @,
               !.total_sqft = IF ~IsNan(sqft) THEN FAdd(@, sqft) ELSE @]

RECURSIVE CityTotals(_, _, _, _)
CityTotals(cities, prices, sqfts, n) ==
  IF n = 0 THEN <<>>
  ELSE LET totals == CityTotals(cities, prices, sqfts, n - 1)
           i      == IndexOf(totals, cities[n])
           fresh  == [key |-> cities[n], count |-> 0,
                      total_price |-> Fin(0, 1), total_sqft |-> Fin(0, 1)]
       IN  IF i = 0
           THEN Append(totals, CityAccumulate(fresh, prices[n], sqfts[n]))
           ELSE [totals EXCEPT ![i] = CityAccumulate(@, prices[n], sqfts[n])]

\* the average price emitted for one city entry
CityAvgPrice(info) ==
  IF info.count # 0 THEN FDiv(info.total_price, IntToFloat(info.count)) ELSE NaN

CityAvgSqft(info) ==
  IF info.count # 0
  THEN (IF FTruthy(info.total_sqft)
        THEN FDiv(info.total_sqft, IntToFloat(info.count)) ELSE NaN)
  ELSE NaN

_compute_city_stats(properties) ==
  LET prices == FloatColumn(properties, "price")
      sqfts  == FloatColumn(properties, "livingArea")
      cities == [i \in 1..Len(properties) |-> _safe_str(properties[i]["city"], Unknown)]
  IN  IF Raised(prices) THEN prices
      ELSE IF Raised(sqfts) THEN sqfts
      ELSE LET totals == CityTotals(cities, prices.val, sqfts.val, Len(properties))
           IN  Ok([names     |-> [i \in 1..Len(totals) |-> totals[i].key],
                   counts    |-> [i \in 1..Len(totals) |-> totals[i].count],
                   avg_price |-> [i \in 1..Len(totals) |-> CityAvgPrice(totals[i])],
                   avg_sqft  |-> [i \in 1..Len(totals) |-> CityAvgSqft(totals[i])]])

\* the body of the loop of _compute_home_type_mix on one entry
HomeAccumulate(info, price) ==
  [info EXCEPT !.count = @ + 1,
               !.total_price = IF ~IsNan(price) THEN FAdd(@, price) ELSE @]

RECURSIVE HomeTotals(_, _, _)
HomeTotals(types, prices, n) ==
  IF n = 0 THEN <<>>
  ELSE LET totals == HomeTotals(types, prices, n - 1)
           i      == IndexOf(totals, types[n])
           fresh  == [key |-> types[n], count |-> 0, total_price |-> Fin(0, 1)]
       IN  IF i = 0
           THEN Append(totals, HomeAccumulate(fresh, prices[n]))
           ELSE [totals EXCEPT ![i] = HomeAccumulate(@, prices[n])]

HomeAvgPrice(info) ==
  IF info.count # 0 THEN FDiv(info.total_price, IntToFloat(info.count)) ELSE NaN

_compute_home_type_mix(properties) ==
  LET prices == FloatColumn(properties, "price")
      types  == [i \in 1..Len(properties) |-> _safe_str(properties[i]["homeType"], Unknown)]
  IN  IF Raised(prices) THEN prices
      ELSE LET totals == HomeTotals(types, prices.val, Len(properties))
           IN  Ok([names     |-> [i \in 1..Len(totals) |-> totals[i].key],
                   counts    |-> [i \in 1..Len(totals) |-> totals[i].count],
                   avg_price |-> [i \in 1..Len(totals) |-> HomeAvgPrice(totals[i])]])

\* rank given to a label that is neither digits nor "+"-suffixed
SortSentinel == 99

\* f"{value}+" if value >= 5 else str(value)
BandLabel(value) ==
  IF value >= 5 THEN Append(IntToStr(value), "+") ELSE IntToStr(value)

\* the label of one record, or the exception int(round(...)) raises
BandOf(prop) ==
  LET bedrooms == prop["bedrooms"]
  IN  IF bedrooms.t = "null" THEN Ok(Unknown)
      ELSE LET x == _safe_float(bedrooms)
               r == IF Raised(x) THEN x ELSE RoundFloat(x.val)
           IN  IF Raised(r) THEN r ELSE Ok(BandLabel(r.val))

RECURSIVE BandCounts(_, _)
BandCounts(labels, n) ==
  IF n = 0 THEN <<>>
  ELSE LET bands == BandCounts(labels, n - 1)
           i     == IndexOf(bands, labels[n])
       IN  IF i = 0
           THEN Append(bands, [key |-> labels[n], count |-> 1])
           ELSE [bands EXCEPT ![i].count = @ + 1]

\* the sort key of a band label; the labels BandLabel makes always parse
BandKey(x) ==
  IF EndsWith(x, "+") THEN StrToInt(SubSeq(x, 1, Len(x) - 1)).val
  ELSE IF IsDigitStr(x) THEN StrToInt(x).val
  ELSE SortSentinel

\* list.sort(key=...): stable, ascending by key
RECURSIVE SortBands(_)
SortBands(bands) ==
  IF bands = <<>> THEN <<>>
  ELSE LET n    == Len(bands)
           rest == SortBands(SubSeq(bands, 1, n - 1))
           x    == bands[n]
           keep == {i \in 1..Len(rest) : BandKey(rest[i].key) <= BandKey(x.key)}
           k    == Cardinality(keep)
       IN  SubSeq(rest, 1, k) \o <<x>> \o SubSeq(rest, k + 1, Len(rest))

_compute_bedroom_bands(properties) ==
  LET labels == Collect([i \in 1..Len(properties) |-> BandOf(properties[i])])
  IN  IF Raised(labels) THEN labels
      ELSE LET bands == SortBands(BandCounts(labels.val, Len(properties)))
           IN  Ok([labels |-> [i \in 1..Len(bands) |-> bands[i].key],
                   counts |-> [i \in 1..Len(bands) |-> bands[i].count]])

\* the elements of xs that are not NaN, in order
RECURSIVE Valid(_)
Valid(xs) ==
  IF xs = <<>> THEN <<>>
  ELSE LET rest == Valid(SubSeq(xs, 1, Len(xs) - 1))
       IN  IF IsNan(xs[Len(xs)]) THEN rest ELSE Append(rest, xs[Len(xs)])

RECURSIVE SortFloats(_)
SortFloats(xs) ==
  IF xs = <<>> THEN <<>>
  ELSE LET n    == Len(xs)
           rest == SortFloats(SubSeq(xs, 1, n - 1))
           k    == Cardinality({i \in 1..Len(rest) : ~FLess(xs[n], rest[i])})
       IN  SubSeq(rest, 1, k) \o <<xs[n]>> \o SubSeq(rest, k + 1, Len(rest))

\* numpy's linear interpolation between two order statistics
Lerp(a, b, t) ==
  LET diff == FSub(b, a)
  IN  IF ~FLess(t, Fin(1, 2))
      THEN FSub(b, FMul(diff, FSub(Fin(1, 1), t)))
      ELSE FAdd(a, FMul(diff, t))

\* the (quarter/4)-quantile of a sorted, non-empty array, method "linear"
Quantile(sorted, quarter) ==
  LET n   == Len(sorted)
      pos == (n - 1) * quarter
      lo  == pos \div 4
      hi  == IF lo + 1 > n - 1 THEN n - 1 ELSE lo + 1
  IN  Lerp(sorted[lo + 1], sorted[hi + 1], Fin(pos % 4, 4))

\* np.percentile(valid_prices, [0, 25, 50, 75, 100]), or five NaN
PriceQuartiles(prices) ==
  LET valid == SortFloats(Valid(prices))
  IN  IF valid # <<>>
      THEN [q \in 1..5 |-> Quantile(valid, q - 1)]
      ELSE [q \in 1..5 |-> NaN]

\* np.mean of the values that are not NaN, or NaN when there are none
MeanValid(xs) ==
  LET valid == Valid(xs)
  IN  IF valid # <<>> THEN FDiv(FSum(valid), IntToFloat(Len(valid))) ELSE NaN

\* np.median of the values that are not NaN, or NaN when there are none
MedianValid(xs) ==
  LET valid == SortFloats(Valid(xs))
      n     == Len(valid)
  IN  IF n = 0 THEN NaN
      ELSE IF n % 2 = 1 THEN valid[(n + 1) \div 2]
      ELSE FDiv(FAdd(valid[n \div 2], valid[n \div 2 + 1]), Fin(2, 1))

\* price / area of the records with a price and a positive area
RECURSIVE PricePerSqft(_, _, _)
PricePerSqft(prices, areas, n) ==
  IF n = 0 THEN <<>>
  ELSE LET rest == PricePerSqft(prices, areas, n - 1)
       IN  IF IsNan(prices[n]) \/ IsNan(areas[n]) \/ ~FLess(Fin(0, 1), areas[n])
           THEN rest
           ELSE Append(rest, FDiv(prices[n], areas[n]))

(***************************************************************************)
(* The HDF5 file                                                           *)
(***************************************************************************)
\* a path with no file, and a file with no group
NoFile    == [exists |-> FALSE, groups |-> {}, ds |-> <<>>, attrs |-> <<>>]
EmptyFile == [exists |-> TRUE,  groups |-> {}, ds |-> <<>>, attrs |-> <<>>]

\* the file a reopening in append mode would leave: the content is kept
OpenAppend(file) == IF file.exists THEN file ELSE EmptyFile

\* h5py.File(file_path, "w"): create the file, or truncate the one there
OpenWrite(file) == EmptyFile

\* h5.create_group(name): a name already in the file raises ValueError
CreateGroup(file, name) ==
  IF name \in file.groups THEN Raise("ValueError")
  ELSE Ok([file EXCEPT !.groups = @ \cup {name}])

\* the first step that raises, or Len(steps) + 1
FirstRaise(steps) ==
  LET bad == {i \in 1..Len(steps) : Raised(steps[i].res)}
  IN  IF bad = {} THEN Len(steps) + 1 ELSE CHOOSE i \in bad : \A j \in bad : i <= j

RECURSIVE PutAll(_, _, _)
PutAll(ds, steps, n) ==
  IF n = 0 THEN ds
  ELSE (steps[n].name :> steps[n].res.val) @@ PutAll(ds, steps, n - 1)

\* create_dataset for each step in order, up to the first value that raises
WriteSteps(file, steps) ==
  LET k == FirstRaise(steps)
  IN  [file |-> [file EXCEPT !.ds = PutAll(@, steps, k - 1)],
       exc  |-> IF k > Len(steps) THEN "" ELSE steps[k].res.exc]

Step(name, res) == [name |-> name, res |-> res]

\* res.val[field] when res did not raise
Part(res, field) == IF Raised(res) THEN res ELSE Ok(res.val[field])

_write_property_group(h5, properties) ==
  LET group == CreateGroup(h5, "properties")
  IN  IF Raised(group) THEN [file |-> h5, exc |-> group.exc]
      ELSE WriteSteps(group.val,
             << Step("properties/zpid",         IntColumn(properties, "zpid")),
                Step("properties/price",        FloatColumn(properties, "price")),
                Step("properties/bedrooms",     FloatColumn(properties, "bedrooms")),
                Step("properties/bathrooms",    FloatColumn(properties, "bathrooms")),
                Step("properties/livingArea",   FloatColumn(properties, "livingArea")),
                Step("properties/latitude",     FloatColumn(properties, "latitude")),
                Step("properties/longitude",    FloatColumn(properties, "longitude")),
                Step("properties/pricePerSqft", FloatColumn(properties, "pricePerSqft")),
                Step("properties/city",         StrColumn(properties, "city")),
                Step("properties/state",        StrColumn(properties, "state")),
                Step("properties/homeType",     StrColumn(properties, "homeType")) >>)

_write_aggregations(h5, properties) ==
  LET group  == CreateGroup(h5, "aggregations")
      city   == _compute_city_stats(properties)
      home   == _compute_home_type_mix(properties)
      bands  == _compute_bedroom_bands(properties)
      prices == FloatColumn(properties, "price")
      pps    == FloatColumn(properties, "pricePerSqft")
  IN  IF Raised(group) THEN [file |-> h5, exc |-> group.exc]
      ELSE WriteSteps(group.val,
             << Step("aggregations/city_names",          Part(city, "names")),
                Step("aggregations/city_counts",         Part(city, "counts")),
                Step("aggregations/city_avg_price",      Part(city, "avg_price")),
                Step("aggregations/city_avg_sqft",       Part(city, "avg_sqft")),
                Step("aggregations/home_types",          Part(home, "names")),
                Step("aggregations/home_type_counts",    Part(home, "counts")),
                Step("aggregations/home_type_avg_price", Part(home, "avg_price")),
                Step("aggregations/bedroom_bands",       Part(bands, "labels")),
                Step("aggregations/bedroom_counts",      Part(bands, "counts")),
                Step("aggregations/price_quartiles",
                     IF Raised(prices) THEN prices ELSE Ok(PriceQuartiles(prices.val))),
                Step("aggregations/price_per_sqft_mean",
                     IF Raised(pps) THEN pps ELSE Ok(<<MeanValid(pps.val)>>)) >>)

_write_global_metrics(h5, properties) ==
  LET group  == CreateGroup(h5, "global_metrics")
      prices == FloatColumn(properties, "price")
      living == FloatColumn(properties, "livingArea")
  IN  IF Raised(group) THEN [file |-> h5, exc |-> group.exc]
      ELSE IF Raised(prices) THEN [file |-> group.val, exc |-> prices.exc]
      ELSE IF Raised(living) THEN [file |-> group.val, exc |-> living.exc]
      ELSE LET ratios == PricePerSqft(prices.val, living.val, Len(properties))
           IN  [file |-> [group.val EXCEPT !.attrs =
                   [total_properties       |-> Len(properties),
                    average_price          |-> MeanValid(prices.val),
                    median_price           |-> MedianValid(prices.val),
                    average_living_area    |-> MeanValid(living.val),
                    average_price_per_sqft |-> MeanValid(ratios)]],
                exc |-> ""]

(***************************************************************************)
(* Reading                                                                 *)
(***************************************************************************)
\* the JSON null of the summary
Null == [k |-> "null", n |-> 0, d |-> 1]

\* the decoder with the test for infinities left out
MaybeNanOnly(value) == IF IsNan(value) THEN Null ELSE value

_maybe(value) == IF IsNan(value) \/ IsInf(value) THEN Null ELSE value

Min(a, b) == IF a < b THEN a ELSE b

\* float(value) of an attribute: total_properties is stored as an integer
AttrFloat(name, value) ==
  IF name = "total_properties" THEN IntToFloat(value) ELSE value

AggregationNames ==
  << "aggregations/city_names", "aggregations/city_counts",
     "aggregations/city_avg_price", "aggregations/city_avg_sqft",
     "aggregations/home_types", "aggregations/home_type_counts",
     "aggregations/home_type_avg_price", "aggregations/bedroom_bands",
     "aggregations/bedroom_counts", "aggregations/price_quartiles",
     "aggregations/price_per_sqft_mean" >>

\* the body of the with block of read_archive: the summary, or KeyError
\* for a group or a dataset that is not in the file
Decode(h5) ==
  IF "aggregations" \notin h5.groups THEN Raise("KeyError")
  ELSE IF \E i \in 1..Len(AggregationNames) : AggregationNames[i] \notin DOMAIN h5.ds
  THEN Raise("KeyError")
  ELSE IF "global_metrics" \notin h5.groups THEN Raise("KeyError")
  ELSE
    LET d  == h5.ds
        cn == Min(Min(Len(d["aggregations/city_names"]), Len(d["aggregations/city_counts"])),
                  Min(Len(d["aggregations/city_avg_price"]), Len(d["aggregations/city_avg_sqft"])))
        hn == Min(Len(d["aggregations/home_types"]),
                  Min(Len(d["aggregations/home_type_counts"]),
                      Len(d["aggregations/home_type_avg_price"])))
        bn == Min(Len(d["aggregations/bedroom_bands"]), Len(d["aggregations/bedroom_counts"]))
        q  == [i \in 1..5 |-> _maybe(d["aggregations/price_quartiles"][i])]
    IN  Ok([cityPriceSummary |->
              [i \in 1..cn |->
                 [city              |-> d["aggregations/city_names"][i],
                  properties        |-> d["aggregations/city_counts"][i],
                  averagePrice      |-> _maybe(d["aggregations/city_avg_price"][i]),
                  averageLivingArea |-> _maybe(d["aggregations/city_avg_sqft"][i])]],
            homeTypeSummary |->
              [i \in 1..hn |->
                 [homeType     |-> d["aggregations/home_types"][i],
                  properties   |-> d["aggregations/home_type_counts"][i],
                  averagePrice |-> _maybe(d["aggregations/home_type_avg_price"][i])]],
            bedroomDistribution |->
              [i \in 1..bn |->
                 [band       |-> d["aggregations/bedroom_bands"][i],
                  properties |-> d["aggregations/bedroom_counts"][i]]],
            priceQuartiles |->
              [min |-> q[1], q1 |-> q[2], median |-> q[3], q3 |-> q[4], max |-> q[5]],
            averagePricePerSqft |-> _maybe(d["aggregations/price_per_sqft_mean"][1]),
            marketTotals |-> [a \in DOMAIN h5.attrs |-> _maybe(AttrFloat(a, h5.attrs[a]))]])

(***************************************************************************)
(* Inputs                                                                  *)
(***************************************************************************)
Paths == {"insights.h5"}

\* a record with no field
NoFields == [f \in FieldNames |-> JNull]

Rec(fields) == fields @@ NoFields

\* records that differ in city, home type, price and living area
CityRecords ==
  { Rec("city" :> JStr(<<"A">>) @@ "homeType" :> JStr(<<"H">>) @@ "price" :> JInt(100)
        @@ "livingArea" :> JInt(50)),
    Rec("city" :> JStr(<<"A">>) @@ "homeType" :> JStr(<<"H">>) @@ "livingArea" :> JInt(0)),
    Rec("city" :> JStr(<<" ", "A", " ">>) @@ "homeType" :> JStr(<<"C">>)
        @@ "price" :> JInt(300) @@ "livingArea" :> JNum(NaN)),
    Rec("city" :> JStr(<<" ">>) @@ "price" :> JStr(<<"a", "b", "c">>)
        @@ "livingArea" :> JInt(30)),
    Rec("city" :> JStr(<<"B">>) @@ "homeType" :> JStr(<<"C">>) @@ "price" :> JNum(PInf)
        @@ "livingArea" :> JInt(50)),
    Rec("city" :> JStr(<<"B">>) @@ "homeType" :> JInt(3)
        @@ "price" :> JStr(<<"-", "i", "n", "f">>)) }

\* records that differ in bedrooms
BedroomRecords ==
  { Rec("bedrooms" :> b) :
      b \in { JNull, JNum(Fin(5, 2)), JInt(5), JInt(7), JInt(-1), JInt(100) } }

\* records whose fields hold the other kinds of JSON value
OtherRecords ==
  { Rec("zpid" :> JNum(Fin(79, 10)) @@ "state" :> JStr(<<"N", "C">>)
        @@ "bathrooms" :> JBool(TRUE) @@ "latitude" :> JList @@ "longitude" :> JObj
        @@ "pricePerSqft" :> JStr(<<" ", "2", ".", "5">>) @@ "price" :> JInt(100)
        @@ "livingArea" :> JInt(40) @@ "bedrooms" :> JStr(<<"3">>)),
    Rec("zpid" :> JStr(<<"i", "n", "f">>)),
    Rec("zpid" :> JInt(7) @@ "price" :> JHuge),
    Rec("zpid" :> JInt(8) @@ "bedrooms" :> JStr(<<"a", "b", "c">>)
        @@ "pricePerSqft" :> JInt(3)) }

RECURSIVE SeqsUpTo(_, _)
SeqsUpTo(S, n) ==
  IF n = 0 THEN {<<>>}
  ELSE LET shorter == SeqsUpTo(S, n - 1)
       IN  shorter \cup {Append(q, x) : q \in shorter, x \in S}

\* the bedrooms [2, 0, 5, 7, None, 3]
BedroomExample ==
  << Rec("bedrooms" :> JInt(2)), Rec("bedrooms" :> JInt(0)), Rec("bedrooms" :> JInt(5)),
     Rec("bedrooms" :> JInt(7)), Rec("bedrooms" :> JNull), Rec("bedrooms" :> JInt(3)) >>

\* the prices [100, 200, 300, 400]
QuartileExample ==
  << Rec("price" :> JInt(100)), Rec("price" :> JInt(200)), Rec("price" :> JInt(300)),
     Rec("price" :> JInt(400)) >>

\* the property collections a build call is given: the sequences of up to
\* MaxProps records of one family, and the two worked examples
Collections ==
  SeqsUpTo(CityRecords, MaxProps) \cup SeqsUpTo(BedroomRecords, MaxProps)
    \cup SeqsUpTo(OtherRecords, MaxProps) \cup {BedroomExample, QuartileExample}

(***************************************************************************)
(* State                                                                   *)
(***************************************************************************)
VARIABLES
  fs,          \* the file at each path
  handles,     \* the paths with an open file handle
  pc,          \* the position of the call in progress, "idle" between calls
  op,          \* the call in progress or last made: "build", "read" or "none"
  properties,  \* the properties argument of the last build call
  file_path,   \* the file_path argument of the call in progress or last made
  opened,      \* whether the call has tried to open the file
  pending,     \* the exception raised inside the with block, "" if none
  result,      \* what the last call returned or raised
  built,       \* how the last build on the path ended: "none", "ok", "failed"
  replaced     \* whether the last build call found a file at its path

vars ==
  <<fs, handles, pc, op, properties, file_path, opened, pending, result, built, replaced>>

NoResult      == [kind |-> "none",    exc |-> "", stored |-> 0, summary |-> <<>>]
Error(e)      == [kind |-> "error",   exc |-> e,  stored |-> 0, summary |-> <<>>]
BuildOk(n)    == [kind |-> "ok",      exc |-> "", stored |-> n, summary |-> <<>>]
Insights(sum) == [kind |-> "summary", exc |-> "", stored |-> 0, summary |-> sum]

Init ==
  /\ fs = [p \in Paths |-> NoFile]
  /\ handles = {}
  /\ pc = "idle"
  /\ op = "none"
  /\ properties = <<>>
  /\ file_path = CHOOSE p \in Paths : TRUE
  /\ opened = FALSE
  /\ pending = ""
  /\ result = NoResult
  /\ built = "none"
  /\ replaced = FALSE

\* leaving a with block as a bug would: the handle stays open on an exception
ExitKeepOnError(open, path, exc) == IF exc # "" THEN open ELSE open \ {path}

\* leaving the with h5py.File(...) block, normally or by an exception
WithExit(open, path, exc) == open \ {path}

\* a read that goes straight to opening the file
NoPrecheck(files, path) == ""

\* lines 238-239 of read_archive: the exception raised before the file is opened
ReadPrecheck(files, path) ==
  IF ~files[path].exists THEN "FileNotFoundError" ELSE ""

(***************************************************************************)
(* build_archive                                                           *)
(***************************************************************************)
\* the call, up to h5py.File(file_path, "w")
BuildCall(P, path) ==
  /\ pc = "idle"
  /\ op' = "build"
  /\ file_path' = path
  /\ opened' = TRUE
  /\ pending' = ""
  /\ fs' = [fs EXCEPT ![path] = OpenWrite(@)]
  /\ properties' = P
  /\ handles' = handles \cup {path}
  /\ built' = "failed"
  /\ replaced' = fs[path].exists
  /\ result' = NoResult
  /\ pc' = "write_properties"

\* the state after one section of the with block, whose writer gave written
AfterSection(next, written) ==
  /\ fs' = [fs EXCEPT ![file_path] = written.file]
  /\ pending' = written.exc
  /\ pc' = IF written.exc = "" THEN next ELSE "build_exit"
  /\ UNCHANGED <<handles, op, properties, file_path, opened, result, built, replaced>>

\* a section whose write fails raises OSError and leaves the file as it is
IOFailure(h5) == [file |-> h5, exc |-> "OSError"]

\* a section of the with block: its writer runs on the open file, or the
\* write fails
Section(at, next, write(_, _)) ==
  /\ pc = at
  /\ \E ioFails \in BOOLEAN :
       AfterSection(next,
                    IF ioFails THEN IOFailure(fs[file_path])
                    ELSE write(fs[file_path], properties))

WriteProperties ==
  Section("write_properties", "write_aggregations", _write_property_group)

WriteAggregations ==
  Section("write_aggregations", "write_global_metrics", _write_aggregations)

WriteGlobalMetrics ==
  Section("write_global_metrics", "build_exit", _write_global_metrics)

\* the end of the with block, then the return or the propagating exception
BuildExit ==
  /\ pc = "build_exit"
  /\ handles' = WithExit(handles, file_path, pending)
  /\ result' = IF pending = "" THEN BuildOk(Len(properties)) ELSE Error(pending)
  /\ built' = IF pending = "" THEN "ok" ELSE "failed"
  /\ pending' = ""
  /\ pc' = "idle"
  /\ UNCHANGED <<fs, op, properties, file_path, opened, replaced>>

(***************************************************************************)
(* read_archive                                                            *)
(***************************************************************************)
\* the call, up to h5py.File(file_path, "r")
ReadCall(path) ==
  /\ pc = "idle"
  /\ op' = "read"
  /\ file_path' = path
  /\ pending' = ""
  /\ LET pre == ReadPrecheck(fs, path)
     IN  IF pre # ""
         THEN /\ result' = Error(pre)
              /\ opened' = FALSE
              /\ pc' = "idle"
              /\ UNCHANGED handles
         ELSE /\ opened' = TRUE
              /\ IF ~fs[path].exists
                 THEN /\ result' = Error("OSError")
                      /\ pc' = "idle"
                      /\ UNCHANGED handles
                 ELSE /\ result' = NoResult
                      /\ handles' = handles \cup {path}
                      /\ pc' = "read_decode"
  /\ UNCHANGED <<fs, properties, built, replaced>>

\* the with block and its end, then the return or the propagating exception
\* (the KeyError of a group or dataset that a failed build left out)
ReadBody ==
  /\ pc = "read_decode"
  /\ LET r == Decode(fs[file_path])
     IN  /\ handles' = WithExit(handles, file_path, r.exc)
         /\ result' = IF Raised(r) THEN Error(r.exc) ELSE Insights(r.val)
  /\ pc' = "idle"
  /\ UNCHANGED <<fs, op, properties, file_path, opened, pending, built, replaced>>

Next ==
  \/ \E P \in Collections, path \in Paths : BuildCall(P, path)
  \/ WriteProperties
  \/ WriteAggregations
  \/ WriteGlobalMetrics
  \/ BuildExit
  \/ \E path \in Paths : ReadCall(path)
  \/ ReadBody

Spec == Init /\ [][Next]_vars

(***************************************************************************)
(* Properties                                                              *)
(***************************************************************************)
\* a read has returned the summary of an archive whose build succeeded
ReadBack == pc = "idle" /\ result.kind = "summary" /\ built = "ok"

RECURSIVE ISum(_)
ISum(xs) == IF xs = <<>> THEN 0 ELSE ISum(SubSeq(xs, 1, Len(xs) - 1)) + xs[Len(xs)]

\* the sum of the 'properties' counts of a grouped table
SumProperties(table) == ISum([i \in 1..Len(table) |-> table[i].properties])

\* the record has a price that is present, parseable and not NaN
ValidPrice(prop) ==
  LET x == _safe_float(prop["price"]) IN ~Raised(x) /\ ~IsNan(x.val)

\* the records of P whose coerced field is key
Members(P, field, key) == {i \in 1..Len(P) : _safe_str(P[i][field], Unknown) = key}

RECURSIVE SumPrices(_, _)
SumPrices(P, S) ==
  IF S = {} THEN Fin(0, 1)
  ELSE LET i == CHOOSE j \in S : TRUE
       IN  FAdd(SumPrices(P, S \ {i}), _safe_float(P[i]["price"]).val)

\* the mean of the valid prices of the records S of P, as read shows it
MeanOfValid(P, S) ==
  LET V == {i \in S : ValidPrice(P[i])}
  IN  _maybe(FDiv(SumPrices(P, V), IntToFloat(Cardinality(V))))

\* the integer the bedrooms of a record round to (the record has bedrooms)
Rounded(prop) == RoundFloat(_safe_float(prop["bedrooms"]).val).val

HasBedrooms(prop) == prop["bedrooms"].t # "null"

Plus5 == <<"5", "+">>

BandNames == {<<"0">>, <<"1">>, <<"2">>, <<"3">>, <<"4">>, Plus5, Unknown}

\* the records of the bedroom distribution under label, 0 when it is absent
BandCount(dist, label) ==
  LET hit == {i \in 1..Len(dist) : dist[i].band = label}
  IN  IF hit = {} THEN 0 ELSE dist[CHOOSE i \in hit : TRUE].properties

\* the label the claim gives a record
ClaimedBand(prop) ==
  IF ~HasBedrooms(prop) THEN Unknown
  ELSE IF Rounded(prop) >= 5 THEN Plus5 ELSE IntToStr(Rounded(prop))

\* the number a band label stands for
BandNumber(label) ==
  IF EndsWith(label, "+") THEN StrToInt(SubSeq(label, 1, Len(label) - 1)).val
  ELSE StrToInt(label).val

\* the archive a build of P makes of an empty file
Fresh(P) ==
  _write_global_metrics(
    _write_aggregations(_write_property_group(EmptyFile, P).file, P).file, P).file

\* C1: after a successful build of P, the 'properties' counts of
\* cityPriceSummary, of homeTypeSummary and of bedroomDistribution in the
\* summary read back each sum to len(P).
C1_CountsSumToLen ==
  ReadBack =>
    /\ SumProperties(result.summary.cityPriceSummary) = Len(properties)
    /\ SumProperties(result.summary.homeTypeSummary) = Len(properties)
    /\ SumProperties(result.summary.bedroomDistribution) = Len(properties)

\* a summary read back of two records whose cities differ as written and
\* fall in one group
C1_Witness ==
  /\ ReadBack
  /\ Len(properties) >= 2
  /\ \E i, j \in 1..Len(properties) :
       /\ properties[i]["city"] # properties[j]["city"]
       /\ _safe_str(properties[i]["city"], Unknown) = _safe_str(properties[j]["city"], Unknown)
  /\ Len(result.summary.cityPriceSummary) = 1

\* C2: a city group or home-type group none of whose records has a valid
\* price is read back with averagePrice = null, never with a number.
C2_NullWithoutValidPrice ==
  ReadBack =>
    /\ \A i \in 1..Len(result.summary.cityPriceSummary) :
         LET g == result.summary.cityPriceSummary[i]
         IN  (\A r \in Members(properties, "city", g.city) : ~ValidPrice(properties[r]))
               => g.averagePrice = Null
    /\ \A i \in 1..Len(result.summary.homeTypeSummary) :
         LET g == result.summary.homeTypeSummary[i]
         IN  (\A r \in Members(properties, "homeType", g.homeType) : ~ValidPrice(properties[r]))
               => g.averagePrice = Null

\* C3: a city group or home-type group with at least one valid price is read
\* back with averagePrice = the sum of its valid prices divided by the number
\* of its records whose price is valid.
C3_MeanOverValidPrices ==
  ReadBack =>
    /\ \A i \in 1..Len(result.summary.cityPriceSummary) :
         LET g == result.summary.cityPriceSummary[i]
             S == Members(properties, "city", g.city)
         IN  (\E r \in S : ValidPrice(properties[r]))
               => g.averagePrice = MeanOfValid(properties, S)
    /\ \A i \in 1..Len(result.summary.homeTypeSummary) :
         LET g == result.summary.homeTypeSummary[i]
             S == Members(properties, "homeType", g.homeType)
         IN  (\E r \in S : ValidPrice(properties[r]))
               => g.averagePrice = MeanOfValid(properties, S)

\* C4: every record whose bedrooms round to 5 or more is counted under the
\* one label "5+", every record whose bedrooms round to n in 0..4 under the
\* decimal string of n, so for non-negative bedrooms the labels are among
\* "0".."4", "5+", "Unknown"; and bedrooms [2, 0, 5, 7, None, 3] give the
\* bands 0, 2, 3, 5+, Unknown with counts 1, 1, 1, 2, 1.
C4_BandsOfBedrooms ==
  ReadBack =>
    LET dist == result.summary.bedroomDistribution
        P    == properties
    IN  /\ (\A r \in 1..Len(P) : HasBedrooms(P[r]) => Rounded(P[r]) >= 0)
             => /\ \A i \in 1..Len(dist) : dist[i].band \in BandNames
                /\ \A b \in BandNames :
                     BandCount(dist, b) = Cardinality({r \in 1..Len(P) : ClaimedBand(P[r]) = b})
        /\ P = BedroomExample
             => dist = << [band |-> <<"0">>, properties |-> 1],
                          [band |-> <<"2">>, properties |-> 1],
                          [band |-> <<"3">>, properties |-> 1],
                          [band |-> Plus5,   properties |-> 2],
                          [band |-> Unknown, properties |-> 1] >>

\* C5: the coercion functions and the aggregations never raise, so a build
\* call fails only in file I/O: an exception a build ends with is an OSError.
C5_BuildFailsOnlyInIO ==
  (pc = "idle" /\ op = "build" /\ result.kind = "error") => result.exc = "OSError"

\* C6: no value of the summary read is NaN or infinite: each float of
\* cityPriceSummary, homeTypeSummary, priceQuartiles, averagePricePerSqft and
\* marketTotals that is NaN or infinite in the archive is null in the summary,
\* and each finite one is the stored value.
Shown(stored, shown) ==
  IF IsNan(stored) \/ IsInf(stored) THEN shown = Null ELSE shown = stored

C6_NoNanOrInfinity ==
  (pc = "idle" /\ result.kind = "summary") =>
    LET S == result.summary
        d == fs[file_path].ds
        a == fs[file_path].attrs
    IN  /\ \A i \in 1..Len(S.cityPriceSummary) :
             /\ Shown(d["aggregations/city_avg_price"][i], S.cityPriceSummary[i].averagePrice)
             /\ Shown(d["aggregations/city_avg_sqft"][i],
                      S.cityPriceSummary[i].averageLivingArea)
        /\ \A i \in 1..Len(S.homeTypeSummary) :
             Shown(d["aggregations/home_type_avg_price"][i], S.homeTypeSummary[i].averagePrice)
        /\ Shown(d["aggregations/price_quartiles"][1], S.priceQuartiles.min)
        /\ Shown(d["aggregations/price_quartiles"][2], S.priceQuartiles.q1)
        /\ Shown(d["aggregations/price_quartiles"][3], S.priceQuartiles.median)
        /\ Shown(d["aggregations/price_quartiles"][4], S.priceQuartiles.q3)
        /\ Shown(d["aggregations/price_quartiles"][5], S.priceQuartiles.max)
        /\ Shown(d["aggregations/price_per_sqft_mean"][1], S.averagePricePerSqft)
        /\ DOMAIN S.marketTotals = DOMAIN a
        /\ \A m \in DOMAIN a :
             Shown(IF m = "total_properties" THEN Fin(a[m], 1) ELSE a[m], S.marketTotals[m])

\* a summary read of an archive that stores an infinite city average, a NaN
\* quartile and a finite count
C6_Witness ==
  /\ pc = "idle"
  /\ result.kind = "summary"
  /\ \E i \in 1..Len(result.summary.cityPriceSummary) :
       /\ IsInf(fs[file_path].ds["aggregations/city_avg_price"][i])
       /\ result.summary.cityPriceSummary[i].averagePrice = Null
  /\ IsNan(fs[file_path].ds["aggregations/price_quartiles"][1])
  /\ result.summary.priceQuartiles.min = Null
  /\ result.summary.marketTotals["total_properties"] = Fin(Len(properties), 1)

\* C7: a read of a path with no file fails with FileNotFoundError, before any
\* attempt to open the file, and leaves the file system as it was.
C7_ReadOfMissingPath ==
  [][ (pc = "idle" /\ op' = "read" /\ ~fs[file_path'].exists)
        => /\ pc' = "idle"
           /\ result' = Error("FileNotFoundError")
           /\ ~opened'
           /\ fs' = fs
           /\ handles' = handles ]_vars

\* a read has failed with FileNotFoundError on a path that has no file
C7_Witness ==
  /\ pc = "idle"
  /\ op = "read"
  /\ result = Error("FileNotFoundError")
  /\ ~fs[file_path].exists
  /\ ~opened

\* C8: build truncates the archive: the file a build opens holds nothing of
\* an earlier build, and a read after a successful build returns exactly the
\* summary of the collection of that last build.
C8_LastBuildOnly ==
  /\ pc = "write_properties" => fs[file_path] = EmptyFile
  /\ ReadBack => /\ fs[file_path] = Fresh(properties)
                 /\ result.summary = Decode(Fresh(properties)).val

\* a summary read back after a build that replaced an earlier archive
C8_Witness ==
  /\ ReadBack
  /\ replaced
  /\ Len(properties) >= 1

\* C9: in the bedroom distribution "Unknown", when present, is the last
\* entry, and the other bands come before it in ascending order of their
\* numeric value.
C9_UnknownLast ==
  ReadBack =>
    LET dist == result.summary.bedroomDistribution
    IN  /\ \A i \in 1..Len(dist) : dist[i].band = Unknown => i = Len(dist)
        /\ \A i, j \in 1..Len(dist) :
             (i < j /\ dist[i].band # Unknown /\ dist[j].band # Unknown)
               => BandNumber(dist[i].band) < BandNumber(dist[j].band)

\* C10: every build call and every read call has closed the file handle it
\* opened when it returns, whether it returns a result or fails inside a
\* section: between calls no handle is open.
C10_HandleReleased == pc = "idle" => handles = {}

\* a build has failed inside the aggregations section, after opening the
\* file and writing the properties section, and holds no handle
C10_Witness ==
  /\ pc = "idle"
  /\ op = "build"
  /\ opened
  /\ result.kind = "error"
  /\ "properties" \in fs[file_path].groups
  /\ handles = {}

====
